---- MODULE Spec2Model ----
(***************************************************************************)
(* Pantry / recipe / shopping-list tools of the Notion pantry MCP server.  *)
(* The remote document store is the state: the pantry database (stock),    *)
(* the shopping-list database (want) and the recipes' "Tried?" checkbox    *)
(* (tried).  Every tool handler is one action; inside a handler each       *)
(* awaited service call is one store call, which either succeeds or, when  *)
(* it is the failAt-th call of the invocation, throws.                     *)
(***************************************************************************)
EXTENDS Integers, Sequences, FiniteSets, TLC

(* ------------------------------ bounds --------------------------------- *)
MaxSteps == 2
MaxEntries == 2
MaxQty == 4
MaxStock == 4
MaxWant == 3
MaxFailAt == 11

(* --------------------------- program constants ------------------------- *)
Today == 1

VARIABLES stock, want, tried, last, conv, procs, steps

vars == <<stock, want, tried, last, conv, procs, steps>>

(* ------------------------------ helpers -------------------------------- *)
\* String.prototype.toLowerCase over the names the model uses.
Lower(n) ==
    CASE n = "Eggs" -> "eggs"
      [] n = "EGGS" -> "eggs"
      [] n = "Rice" -> "rice"
      [] n = "Salt" -> "salt"
      [] n = "Kale" -> "kale"
      [] n = "Milk" -> "milk"
      [] n = "Bread" -> "bread"
      [] n = "Butter" -> "butter"
      [] n = "Chicken Breast" -> "chicken breast"
      [] n = "Onions" -> "onions"
      [] n = "Garlic" -> "garlic"
      [] n = "Pepper" -> "pepper"
      [] n = "Olive Oil" -> "olive oil"
      [] n = "Lemon" -> "lemon"
      [] n = "Herbs" -> "herbs"
      [] n = "Lettuce" -> "lettuce"
      [] OTHER -> n

\* The decrement without its floor at zero.
Max0Unclamped(x) == x

\* Math.max(0, x)
Max0(x) == IF x > 0 THEN x ELSE 0

\* Math.ceil(quantity * 0.2)
CeilFifth(q) == 0 - ((0 - q) \div 5)

\* A lookup that compares the names as they are written.
FindByNameExact(items, name) ==
    LET hits == {i \in 1..Len(items) : ~items[i].archived /\ items[i].name = name}
    IN IF hits = {} THEN 0 ELSE CHOOSE i \in hits : \A j \in hits : i <= j

\* pantryItems.find(item => item.name.toLowerCase() === name.toLowerCase())
\* over the active pages a query returns; 0 when there is no match.
FindByName(items, name) ==
    LET hits == {i \in 1..Len(items) :
                    ~items[i].archived /\ Lower(items[i].name) = Lower(name)}
    IN IF hits = {} THEN 0 ELSE CHOOSE i \in hits : \A j \in hits : i <= j

(* --------------------------- store primitives -------------------------- *)
\* The run-time record of one invocation: the store it sees and writes, the
\* number of store calls made so far, the call that throws (0: none), the
\* writes issued and the report the handler is building.
NewRun(failAt) ==
    [stock |-> stock, want |-> want, tried |-> tried,
     calls |-> 0, failAt |-> failAt, failed |-> FALSE, log |-> <<>>,
     outcome |-> "ok", changes |-> <<>>, added |-> <<>>, notFound |-> <<>>,
     hasNotFound |-> FALSE, triedStatusUpdated |-> FALSE]

\* A try/catch inside the service that swallows the exception of a call.
Caught(st) == [st EXCEPT !.failed = FALSE]

\* One awaited store call: it throws when it is the failAt-th one.
StoreCall(st) ==
    IF st.failed THEN st
    ELSE [st EXCEPT !.calls = @ + 1, !.failed = (st.calls + 1 = st.failAt)]

\* notionService.getPantryItems(): a read; the caller keeps st.stock as snapshot.
getPantryItems(st) == StoreCall(st)

\* An updatePantryItem whose exception is swallowed instead of thrown.
updatePantryItemFieldsSwallowed(st, id, q, e) ==
    LET s1 == StoreCall(st) IN
    IF s1.failed THEN Caught(s1)
    ELSE [s1 EXCEPT !.stock[id].quantity = q,
                    !.stock[id].expiryDate = e,
                    !.log = Append(@, [op |-> "updatePantryItem", id |-> id, quantity |-> q])]

\* notionService.updatePantryItem(id, {quantity, expiryDate}): a partial
\* update; pantryItemToNotionProperties writes only the fields that are given.
updatePantryItemFields(st, id, q, e) ==
    LET s1 == StoreCall(st) IN
    IF s1.failed THEN s1
    ELSE [s1 EXCEPT !.stock[id].quantity = q,
                    !.stock[id].expiryDate = e,
                    !.log = Append(@, [op |-> "updatePantryItem", id |-> id, quantity |-> q])]

\* notionService.updatePantryItem(id, {quantity})
updatePantryItem(st, id, q) == updatePantryItemFields(st, id, q, st.stock[id].expiryDate)

\* notionService.addPantryItem(item): creates a page in the pantry database.
addPantryItemSvc(st, item) ==
    LET s1 == StoreCall(st) IN
    IF s1.failed THEN s1
    ELSE [s1 EXCEPT !.stock = Append(@, item),
                    !.log = Append(@, [op |-> "addPantryItem", id |-> Len(st.stock) + 1,
                                       quantity |-> item.quantity])]

\* notionService.deletePantryItem(id): archives the page.
deletePantryItem(st, id) ==
    LET s1 == StoreCall(st) IN
    IF s1.failed THEN s1
    ELSE [s1 EXCEPT !.stock[id].archived = TRUE,
                    !.log = Append(@, [op |-> "deletePantryItem", id |-> id, quantity |-> 0])]

\* notionService.getShoppingList(): a read; the caller keeps st.want as snapshot.
getShoppingList(st) == StoreCall(st)

\* notionService.updateShoppingListItem(id, {quantity, priority})
updateShoppingListItem(st, id, q, prio) ==
    LET s1 == StoreCall(st) IN
    IF s1.failed THEN s1
    ELSE [s1 EXCEPT !.want[id].quantity = q,
                    !.want[id].priority = prio,
                    !.log = Append(@, [op |-> "updateShoppingListItem", id |-> id, quantity |-> q])]

\* A markAsPurchased that flips the checkbox.
markAsPurchasedToggled(st, id) ==
    LET s1 == StoreCall(st) IN
    IF s1.failed THEN s1
    ELSE [s1 EXCEPT !.want[id].isPurchased = ~@,
                    !.log = Append(@, [op |-> "markAsPurchased", id |-> id, quantity |-> 0])]

\* notionService.markAsPurchased(id) = updateShoppingListItem(id, {isPurchased: true})
markAsPurchased(st, id) ==
    LET s1 == StoreCall(st) IN
    IF s1.failed THEN s1
    ELSE [s1 EXCEPT !.want[id].isPurchased = TRUE,
                    !.log = Append(@, [op |-> "markAsPurchased", id |-> id, quantity |-> 0])]

\* A deleteShoppingListItem that leaves the page active.
deleteShoppingListItemKept(st, id) ==
    LET s1 == StoreCall(st) IN
    IF s1.failed THEN s1
    ELSE [s1 EXCEPT !.log = Append(@, [op |-> "deleteShoppingListItem", id |-> id, quantity |-> 0])]

\* notionService.deleteShoppingListItem(id): archives the page.
deleteShoppingListItem(st, id) ==
    LET s1 == StoreCall(st) IN
    IF s1.failed THEN s1
    ELSE [s1 EXCEPT !.want[id].archived = TRUE,
                    !.log = Append(@, [op |-> "deleteShoppingListItem", id |-> id, quantity |-> 0])]

\* notionService.addToShoppingList(item): creates a page in the shopping list.
addToShoppingListSvc(st, item) ==
    LET s1 == StoreCall(st) IN
    IF s1.failed THEN s1
    ELSE [s1 EXCEPT !.want = Append(@, item),
                    !.log = Append(@, [op |-> "addToShoppingList", id |-> Len(st.want) + 1,
                                       quantity |-> item.quantity])]

WantItem(name, q, prio, auto) ==
    [name |-> name, quantity |-> q, priority |-> prio, isPurchased |-> FALSE,
     isAutoAdded |-> auto, archived |-> FALSE]

(* ---------------------- updatePantryWithUsedItems ---------------------- *)
\* The edge-crossing test of the tool handlers.
CrossesMin(add, p, newQuantity) ==
    /\ add
    /\ p.isStaple
    /\ p.hasMin
    /\ p.quantity > p.minQuantity
    /\ newQuantity <= p.minQuantity

\* An unmatched name that is skipped without being reported.
RecordNotFoundDropped(st, name) == st

\* notFoundItems.push(item.name)
RecordNotFound(st, name) == [st EXCEPT !.notFound = Append(@, name)]

\* Body of the for-loop: one entry of the request against the snapshot.
UsedItemsEntry(st, snap, item, add) ==
    LET id == FindByName(snap, item.name) IN
    IF st.failed THEN st
    ELSE IF id = 0 THEN RecordNotFound(st, item.name)
    ELSE
      LET p == snap[id]
          newQuantity == Max0(p.quantity - item.quantity)
          s1 == updatePantryItem(st, id, newQuantity)
          s2 == IF s1.failed THEN s1
                ELSE [s1 EXCEPT !.changes = Append(@, [name |-> item.name,
                                                       before |-> p.quantity,
                                                       after |-> newQuantity,
                                                       used |-> item.quantity])]
          trig == CrossesMin(add, p, newQuantity)
          s3 == IF ~s2.failed /\ trig
                THEN addToShoppingListSvc(s2,
                        WantItem(p.name, IF p.minQuantity # 0 THEN p.minQuantity ELSE 1,
                                 "Medium", TRUE))
                ELSE s2
      IN IF ~s3.failed /\ trig THEN [s3 EXCEPT !.added = Append(@, p.name)] ELSE s3

RECURSIVE UsedItemsLoop(_, _, _, _, _)
UsedItemsLoop(st, snap, items, add, k) ==
    IF k > Len(items) THEN st
    ELSE UsedItemsLoop(UsedItemsEntry(st, snap, items[k], add), snap, items, add, k + 1)

\* The whole handler: one read of the pantry, then the loop.
updatePantryWithUsedItemsRun(items, add, failAt) ==
    LET s0 == getPantryItems(NewRun(failAt))
        s1 == UsedItemsLoop(s0, s0.stock, items, add, 1)
    IN [s1 EXCEPT !.hasNotFound = TRUE]

(* --------------------- recipes and their ingredients ------------------- *)
\* The recipe pages of the recipes database: title (as its UTF-16 code
\* units), tags, and the keywords of specificIngredients its lower-cased
\* title includes.
Recipes ==
    [r1 |-> [name |-> "Porridge", codes |-> <<80, 111, 114, 114, 105, 100, 103, 101>>,
             tags |-> {"Breakfast"}, keywords |-> <<>>],
     r2 |-> [name |-> "Risotto", codes |-> <<82, 105, 115, 111, 116, 116, 111>>,
             tags |-> {"Dinner"}, keywords |-> <<>>]]

RecipeIds == DOMAIN Recipes

Ing(name, q) == [name |-> name, quantity |-> q, isOptional |-> FALSE]

breakfastIngredients == <<Ing("Eggs", 2), Ing("Milk", 1), Ing("Bread", 2), Ing("Butter", 1)>>
lunchIngredients == <<Ing("Bread", 2), Ing("Cheese", 2), Ing("Lettuce", 1), Ing("Tomato", 1)>>
dinnerIngredients == <<Ing("Chicken Breast", 1), Ing("Rice", 1), Ing("Onions", 1), Ing("Garlic", 2)>>

\* Pepper is 0.5 teaspoon in the source; the recipes above never select it.
optionalIngredients ==
    <<Ing("Salt", 1), Ing("Pepper", 1), Ing("Olive Oil", 2), Ing("Garlic", 2),
      Ing("Lemon", 1), Ing("Herbs", 1)>>

\* The entries of specificIngredients the recipes' keywords can name.
specificIngredients(keyword) ==
    CASE keyword = "egg" -> Ing("Eggs", 2)
      [] keyword = "rice" -> Ing("Rice", 1)
      [] keyword = "salad" -> Ing("Lettuce", 1)

RECURSIVE SumCodes(_)
SumCodes(cs) == IF cs = <<>> THEN 0 ELSE Head(cs) + SumCodes(Tail(cs))

RemoveAt(sq, i) == [j \in 1..(Len(sq) - 1) |-> IF j < i THEN sq[j] ELSE sq[j + 1]]

RECURSIVE AddSpecific(_, _)
AddSpecific(base, kws) ==
    IF kws = <<>> THEN base
    ELSE LET ing == specificIngredients(Head(kws))
             present == \E i \in 1..Len(base) : Lower(base[i].name) = Lower(ing.name)
         IN AddSpecific(IF present THEN base ELSE Append(base, ing), Tail(kws))

RECURSIVE AddOptional(_, _, _, _, _)
AddOptional(ings, pool, seed, i, count) ==
    IF i >= count THEN ings
    ELSE LET idx == (seed % (Len(pool) - i)) + 1
             optional == pool[idx]
             dup == \E k \in 1..Len(ings) : ings[k].name = optional.name
         IN AddOptional(IF dup THEN ings
                        ELSE Append(ings, [optional EXCEPT !.isOptional = TRUE]),
                        RemoveAt(pool, idx), seed, i + 1, count)

\* generateIngredientsFromRecipeName(recipe.name, recipe.tags)
generateIngredientsFromRecipeName(r) ==
    LET base == IF "Breakfast" \in r.tags THEN breakfastIngredients
                ELSE IF "Lunch" \in r.tags THEN lunchIngredients
                ELSE dinnerIngredients
        seed == SumCodes(r.codes)
    IN AddOptional(AddSpecific(base, r.keywords), optionalIngredients, seed, 0, 1 + (seed % 2))

RecipeIngredients(rid) == generateIngredientsFromRecipeName(Recipes[rid])

(* ------------------------ updatePantryAfterCooking --------------------- *)
\* NotionPantryService.updatePantryForRecipe: body of its for-loop.
ForRecipeEntry(st, snap, ingredient) ==
    LET id == FindByName(snap, ingredient.name) IN
    IF st.failed \/ id = 0 THEN st
    ELSE
      LET pantryItem == snap[id]
          newQuantity == Max0(pantryItem.quantity - ingredient.quantity)
          minTruthy == pantryItem.hasMin /\ pantryItem.minQuantity # 0
          s1 == updatePantryItem(st, id, newQuantity)
          low == newQuantity = 0
                 \/ (pantryItem.isStaple /\ minTruthy /\ newQuantity <= pantryItem.minQuantity)
      IN IF ~s1.failed /\ low
         THEN addToShoppingListSvc(s1,
                 WantItem(pantryItem.name,
                          IF pantryItem.isStaple
                          THEN (IF minTruthy THEN pantryItem.minQuantity ELSE 1)
                          ELSE ingredient.quantity,
                          IF pantryItem.isStaple THEN "High" ELSE "Medium",
                          TRUE))
         ELSE s1

RECURSIVE ForRecipeLoop(_, _, _, _)
ForRecipeLoop(st, snap, ings, k) ==
    IF k > Len(ings) THEN st
    ELSE ForRecipeLoop(ForRecipeEntry(st, snap, ings[k]), snap, ings, k + 1)

\* NotionPantryService.updatePantryForRecipe(recipeId)
updatePantryForRecipe(st, recipeId) ==
    LET s1 == StoreCall(st)
        s2 == IF s1.failed \/ recipeId \in RecipeIds THEN s1 ELSE [s1 EXCEPT !.failed = TRUE]
        s3 == getPantryItems(s2)
    IN IF s3.failed THEN s3
       ELSE ForRecipeLoop(s3, s3.stock, RecipeIngredients(recipeId), 1)

\* The handler's report of the recipe path: one ingredient.
RecipeReportEntry(st, before, after, ingredient, add) ==
    LET b == FindByName(before, ingredient.name)
        a == FindByName(after, ingredient.name)
    IN IF ingredient.isOptional \/ b = 0 \/ a = 0 THEN st
       ELSE LET s1 == [st EXCEPT !.changes = Append(@, [name |-> ingredient.name,
                                                        before |-> before[b].quantity,
                                                        after |-> after[a].quantity])]
            IN IF CrossesMin(add, before[b], after[a].quantity)
               THEN [s1 EXCEPT !.added = Append(@, ingredient.name)]
               ELSE s1

RECURSIVE RecipeReportLoop(_, _, _, _, _, _)
RecipeReportLoop(st, before, after, ings, add, k) ==
    IF k > Len(ings) THEN st
    ELSE RecipeReportLoop(RecipeReportEntry(st, before, after, ings[k], add),
                          before, after, ings, add, k + 1)

\* A markRecipeAsTried that reads the recipe and never writes the checkbox.
markRecipeAsTriedNoWrite(st, recipeId) == Caught(StoreCall(st))

\* NotionPantryService.markRecipeAsTried(recipeId): never throws.
markRecipeAsTried(st, recipeId) ==
    LET s1 == StoreCall(st) IN
    IF s1.failed THEN Caught(s1)
    ELSE IF s1.tried[recipeId] THEN s1
    ELSE LET s2 == StoreCall(s1) IN
         IF s2.failed THEN Caught(s2)
         ELSE [s2 EXCEPT !.tried[recipeId] = TRUE,
                         !.log = Append(@, [op |-> "markRecipeAsTried", id |-> 0, quantity |-> 0])]

\* The recipe path of the handler.
CookRecipeRun(st, recipeId, add) ==
    LET r1 == StoreCall(st)
        found == ~r1.failed /\ recipeId \in RecipeIds
    IN IF ~found THEN [Caught(r1) EXCEPT !.outcome = "notfound"]
       ELSE
         LET wasTried == r1.tried[recipeId]
             s2 == getPantryItems(r1)
             s3 == updatePantryForRecipe(s2, recipeId)
             s4 == getPantryItems(s3)
         IN IF s4.failed THEN s4
            ELSE LET s5 == RecipeReportLoop(s4, s2.stock, s4.stock,
                                            RecipeIngredients(recipeId), add, 1)
                 IN IF wasTried THEN s5
                    ELSE [markRecipeAsTried(s5, recipeId) EXCEPT !.triedStatusUpdated = TRUE]

\* The ingredient-list path: body of the for-loop.
CookListEntry(st, snap, ingredient, add) ==
    LET id == FindByName(snap, ingredient.name) IN
    IF st.failed \/ id = 0 THEN st
    ELSE
      LET pantryItem == snap[id]
          newQuantity == Max0(pantryItem.quantity - ingredient.quantity)
          s1 == updatePantryItem(st, id, newQuantity)
          s2 == IF s1.failed THEN s1
                ELSE [s1 EXCEPT !.changes = Append(@, [name |-> ingredient.name,
                                                       before |-> pantryItem.quantity,
                                                       after |-> newQuantity])]
          trig == CrossesMin(add, pantryItem, newQuantity)
          s3 == IF ~s2.failed /\ trig
                THEN addToShoppingListSvc(s2,
                        WantItem(pantryItem.name, pantryItem.minQuantity, "Medium", TRUE))
                ELSE s2
      IN IF ~s3.failed /\ trig THEN [s3 EXCEPT !.added = Append(@, ingredient.name)] ELSE s3

RECURSIVE CookListLoop(_, _, _, _, _)
CookListLoop(st, snap, ings, add, k) ==
    IF k > Len(ings) THEN st
    ELSE CookListLoop(CookListEntry(st, snap, ings[k], add), snap, ings, add, k + 1)

CookListRun(st, ings, add) ==
    LET s0 == getPantryItems(st)
    IN CookListLoop(s0, s0.stock, ings, add, 1)

\* The whole handler; recipeId "" and ingredients <<>> stand for absent arguments.
updatePantryAfterCookingRun(recipeId, ings, add, failAt) ==
    IF recipeId # "" THEN CookRecipeRun(NewRun(failAt), recipeId, add)
    ELSE IF Len(ings) > 0 THEN CookListRun(NewRun(failAt), ings, add)
    ELSE [NewRun(failAt) EXCEPT !.outcome = "missing"]

(* ------------------------------ addPantryItem -------------------------- *)
\* hasMin = FALSE and expiryDate = 0 stand for absent optional arguments.
addPantryItemRun(name, quantity, expiryDate, isStaple, hasMin, minQuantity, failAt) ==
    LET s0 == getPantryItems(NewRun(failAt))
        id == FindByName(s0.stock, name)
    IN IF s0.failed THEN s0
       ELSE IF id # 0
       THEN updatePantryItemFields(s0, id, s0.stock[id].quantity + quantity,
                                   IF expiryDate # 0 THEN expiryDate
                                   ELSE s0.stock[id].expiryDate)
       ELSE addPantryItemSvc(s0,
               [name |-> name, quantity |-> quantity, isStaple |-> isStaple,
                hasMin |-> isStaple,
                minQuantity |-> IF ~isStaple THEN 0
                                ELSE IF hasMin /\ minQuantity # 0 THEN minQuantity
                                ELSE CeilFifth(quantity),
                expiryDate |-> expiryDate, archived |-> FALSE])

(* ----------------------------- updatePantryItems ----------------------- *)
\* A new pantry page with the handler's defaults (not a staple, no minimum).
PlainItem(name, quantity) ==
    [name |-> name, quantity |-> quantity, isStaple |-> FALSE, hasMin |-> FALSE,
     minQuantity |-> 0, expiryDate |-> 0, archived |-> FALSE]

UpdateItemsEntry(st, item) ==
    LET s0 == getPantryItems(st)
        id == FindByName(s0.stock, item.name)
    IN IF s0.failed THEN s0
       ELSE IF id # 0
       THEN updatePantryItem(s0, id, Max0(s0.stock[id].quantity + item.quantity))
       ELSE IF item.quantity > 0
       THEN addPantryItemSvc(s0, PlainItem(item.name, item.quantity))
       ELSE s0

RECURSIVE UpdateItemsLoop(_, _, _)
UpdateItemsLoop(st, items, k) ==
    IF k > Len(items) THEN st
    ELSE UpdateItemsLoop(UpdateItemsEntry(st, items[k]), items, k + 1)

updatePantryItemsRun(items, failAt) == UpdateItemsLoop(NewRun(failAt), items, 1)

(* ------------------------- the shopping-list tools --------------------- *)
\* A lookup that also matches entries that are already purchased.
FindIncludingPurchased(items, name) ==
    LET hits == {i \in 1..Len(items) :
                    /\ ~items[i].archived
                    /\ Lower(items[i].name) = Lower(name)}
    IN IF hits = {} THEN 0 ELSE CHOOSE i \in hits : \A j \in hits : i <= j

\* existingList.find(item => same name ignoring case && !item.isPurchased)
FindUnpurchased(items, name) ==
    LET hits == {i \in 1..Len(items) :
                    /\ ~items[i].archived
                    /\ Lower(items[i].name) = Lower(name)
                    /\ ~items[i].isPurchased}
    IN IF hits = {} THEN 0 ELSE CHOOSE i \in hits : \A j \in hits : i <= j

\* priority: z.enum([...]).optional().default("Medium"); "" stands for an
\* argument the caller left out.
PriorityArg(priority) == IF priority = "" THEN "Medium" ELSE priority

\* a || b on priorities
OrElse(a, b) == IF a # "" THEN a ELSE b

\* The addToShoppingList tool; priority is the argument as the caller gave it.
addToShoppingListRun(name, quantity, priority, failAt) ==
    LET s0 == getShoppingList(NewRun(failAt))
        id == FindUnpurchased(s0.want, name)
        prio == PriorityArg(priority)
    IN IF s0.failed THEN s0
       ELSE IF id # 0
       THEN updateShoppingListItem(s0, id, s0.want[id].quantity + quantity,
                                   OrElse(prio, s0.want[id].priority))
       ELSE addToShoppingListSvc(s0, WantItem(name, quantity, OrElse(prio, "Medium"), FALSE))

\* The markItemAsPurchased tool; the store rejects a page that is archived.
markItemAsPurchasedRun(itemId, failAt) ==
    LET s0 == NewRun(failAt)
    IN IF s0.want[itemId].archived THEN [StoreCall(s0) EXCEPT !.failed = TRUE]
       ELSE markAsPurchased(s0, itemId)

\* addPurchasedItemsToPantry: body of the for-loop for the purchased page id.
PurchasedEntry(st, item, itemId) ==
    LET s0 == getPantryItems(st)
        id == FindByName(s0.stock, item.name)
        s1 == IF s0.failed THEN s0
              ELSE IF id # 0
              THEN updatePantryItem(s0, id, s0.stock[id].quantity + item.quantity)
              ELSE addPantryItemSvc(s0, PlainItem(item.name, item.quantity))
        s2 == IF s1.failed THEN s1
              ELSE [s1 EXCEPT !.changes = Append(@, [name |-> item.name,
                                                     before |-> IF id # 0 THEN s0.stock[id].quantity ELSE 0,
                                                     after |-> IF id # 0 THEN s0.stock[id].quantity + item.quantity
                                                               ELSE item.quantity])]
    IN IF s2.failed THEN s2 ELSE deleteShoppingListItem(s2, itemId)

RECURSIVE PurchasedLoop(_, _, _, _)
PurchasedLoop(st, snap, purchased, k) ==
    IF k > Len(purchased) THEN st
    ELSE PurchasedLoop(IF st.failed THEN st
                       ELSE PurchasedEntry(st, snap[purchased[k]], purchased[k]),
                       snap, purchased, k + 1)

\* A filter that also keeps the purchased pages that are archived.
RECURSIVE PurchasedIdsArchivedToo(_, _)
PurchasedIdsArchivedToo(items, k) ==
    IF k > Len(items) THEN <<>>
    ELSE (IF items[k].isPurchased THEN <<k>> ELSE <<>>)
         \o PurchasedIdsArchivedToo(items, k + 1)

\* shoppingList.filter(item => item.isPurchased): the ids of the snapshot's
\* active pages that are purchased, in query order.
RECURSIVE PurchasedIds(_, _)
PurchasedIds(items, k) ==
    IF k > Len(items) THEN <<>>
    ELSE (IF ~items[k].archived /\ items[k].isPurchased THEN <<k>> ELSE <<>>)
         \o PurchasedIds(items, k + 1)

addPurchasedItemsToPantryRun(failAt) ==
    LET s0 == getShoppingList(NewRun(failAt))
        purchasedItems == PurchasedIds(s0.want, 1)
    IN IF s0.failed THEN s0
       ELSE IF Len(purchasedItems) = 0 THEN [s0 EXCEPT !.outcome = "nothing"]
       ELSE PurchasedLoop(s0, s0.want, purchasedItems, 1)

(* ----------------------------- removeExpiredItems ---------------------- *)
\* A loop body that archives the item in a dry run too.
ExpiredEntryNoDryRun(st, item, id, add, dryRun) ==
    LET s1 == IF add /\ item.isStaple /\ ~dryRun
              THEN addToShoppingListSvc(st,
                      WantItem(item.name,
                               IF item.hasMin /\ item.minQuantity # 0 THEN item.minQuantity
                               ELSE item.quantity,
                               "High", TRUE))
              ELSE st
        s2 == IF ~s1.failed /\ add /\ item.isStaple
              THEN [s1 EXCEPT !.added = Append(@, item.name)]
              ELSE s1
        s3 == IF ~s2.failed THEN deletePantryItem(s2, id) ELSE s2
    IN IF s3.failed THEN s3
       ELSE [s3 EXCEPT !.changes = Append(@, [name |-> item.name,
                                              quantity |-> item.quantity])]

\* One expired item of the snapshot: enqueue a replacement, archive, report.
ExpiredEntry(st, item, id, add, dryRun) ==
    LET s1 == IF add /\ item.isStaple /\ ~dryRun
              THEN addToShoppingListSvc(st,
                      WantItem(item.name,
                               IF item.hasMin /\ item.minQuantity # 0 THEN item.minQuantity
                               ELSE item.quantity,
                               "High", TRUE))
              ELSE st
        s2 == IF ~s1.failed /\ add /\ item.isStaple
              THEN [s1 EXCEPT !.added = Append(@, item.name)]
              ELSE s1
        s3 == IF ~s2.failed /\ ~dryRun THEN deletePantryItem(s2, id) ELSE s2
    IN IF s3.failed THEN s3
       ELSE [s3 EXCEPT !.changes = Append(@, [name |-> item.name,
                                              quantity |-> item.quantity])]

RECURSIVE ExpiredLoop(_, _, _, _, _, _)
ExpiredLoop(st, snap, expired, add, dryRun, k) ==
    IF k > Len(expired) THEN st
    ELSE ExpiredLoop(IF st.failed THEN st
                     ELSE ExpiredEntry(st, snap[expired[k]], expired[k], add, dryRun),
                     snap, expired, add, dryRun, k + 1)

\* A filter that misses the items expiring on the cutoff itself.
RECURSIVE ExpiredIdsStrict(_, _, _)
ExpiredIdsStrict(items, cutoff, k) ==
    IF k > Len(items) THEN <<>>
    ELSE (IF /\ ~items[k].archived
             /\ items[k].expiryDate # 0
             /\ items[k].expiryDate < cutoff
          THEN <<k>> ELSE <<>>)
         \o ExpiredIdsStrict(items, cutoff, k + 1)

\* pantryItems.filter(item => item.expiryDate && expiry <= cutoff): the ids
\* of the snapshot's active pages that are expired, in query order.
RECURSIVE ExpiredIds(_, _, _)
ExpiredIds(items, cutoff, k) ==
    IF k > Len(items) THEN <<>>
    ELSE (IF /\ ~items[k].archived
             /\ items[k].expiryDate # 0
             /\ items[k].expiryDate <= cutoff
          THEN <<k>> ELSE <<>>)
         \o ExpiredIds(items, cutoff, k + 1)

\* checkExpiryBefore 0 stands for the absent argument (new Date(): today).
removeExpiredItemsRun(checkExpiryBefore, add, dryRun, failAt) ==
    LET cutoff == IF checkExpiryBefore # 0 THEN checkExpiryBefore ELSE Today
        s0 == getPantryItems(NewRun(failAt))
        expiredItems == ExpiredIds(s0.stock, cutoff, 1)
    IN IF s0.failed THEN s0
       ELSE IF Len(expiredItems) = 0 THEN [s0 EXCEPT !.outcome = "nothing"]
       ELSE ExpiredLoop(s0, s0.stock, expiredItems, add, dryRun, 1)

(* ----------------------------- unit conversion ------------------------ *)
\* Numbers are exact rationals [n, d] in lowest terms with d > 0.
RECURSIVE GCD(_, _)
GCD(a, b) == IF b = 0 THEN a ELSE GCD(b, a % b)

Abs(x) == IF x < 0 THEN 0 - x ELSE x

Rat(n, d) ==
    LET g == GCD(Abs(n), Abs(d))
        sgn == IF d < 0 THEN 0 - 1 ELSE 1
    IN [n |-> sgn * (n \div g), d |-> sgn * (d \div g)]

\* a * b, reduced crosswise before multiplying.
Mul(a, b) ==
    LET x == Rat(a.n, b.d)
        y == Rat(b.n, a.d)
    IN Rat(x.n * y.n, x.d * y.d)

\* a / b for b # 0
Div(a, b) == Mul(a, Rat(b.d, b.n))

\* const unitConversions: Record<string, number>
unitConversions ==
    [k \in {"tbsp_to_oz", "tsp_to_oz", "cup_to_oz", "cup_to_ml", "oz_to_ml",
            "cup_to_tbsp", "cup_to_tsp", "tbsp_to_tsp", "pint_to_cup",
            "quart_to_cup", "gallon_to_cup", "pound_to_oz", "kg_to_pound",
            "g_to_oz", "cup_flour_to_oz", "cup_sugar_to_oz",
            "cup_brown_sugar_to_oz", "cup_rice_to_oz", "cup_oats_to_oz",
            "cup_milk_to_oz", "cup_butter_to_oz", "cup_oil_to_oz",
            "cup_honey_to_oz", "cup_yogurt_to_oz", "tbsp_honey_to_oz",
            "tbsp_oil_to_oz", "tbsp_butter_to_oz", "tbsp_flour_to_oz",
            "tbsp_sugar_to_oz", "dozen_to_count", "half_dozen_to_count",
            "stick_butter_to_oz", "can_to_oz", "package_to_oz"} |->
       CASE k = "tbsp_to_oz" -> Rat(1, 2)
         [] k = "tsp_to_oz" -> Rat(1667, 10000)
         [] k = "cup_to_oz" -> Rat(8, 1)
         [] k = "cup_to_ml" -> Rat(23659, 100)
         [] k = "oz_to_ml" -> Rat(2957, 100)
         [] k = "cup_to_tbsp" -> Rat(16, 1)
         [] k = "cup_to_tsp" -> Rat(48, 1)
         [] k = "tbsp_to_tsp" -> Rat(3, 1)
         [] k = "pint_to_cup" -> Rat(2, 1)
         [] k = "quart_to_cup" -> Rat(4, 1)
         [] k = "gallon_to_cup" -> Rat(16, 1)
         [] k = "pound_to_oz" -> Rat(16, 1)
         [] k = "kg_to_pound" -> Rat(220462, 100000)
         [] k = "g_to_oz" -> Rat(3527396, 100000000)
         [] k = "cup_flour_to_oz" -> Rat(425, 100)
         [] k = "cup_sugar_to_oz" -> Rat(705, 100)
         [] k = "cup_brown_sugar_to_oz" -> Rat(75, 10)
         [] k = "cup_rice_to_oz" -> Rat(653, 100)
         [] k = "cup_oats_to_oz" -> Rat(265, 100)
         [] k = "cup_milk_to_oz" -> Rat(86, 10)
         [] k = "cup_butter_to_oz" -> Rat(8, 1)
         [] k = "cup_oil_to_oz" -> Rat(763, 100)
         [] k = "cup_honey_to_oz" -> Rat(12, 1)
         [] k = "cup_yogurt_to_oz" -> Rat(86, 10)
         [] k = "tbsp_honey_to_oz" -> Rat(75, 100)
         [] k = "tbsp_oil_to_oz" -> Rat(1, 2)
         [] k = "tbsp_butter_to_oz" -> Rat(1, 2)
         [] k = "tbsp_flour_to_oz" -> Rat(27, 100)
         [] k = "tbsp_sugar_to_oz" -> Rat(44, 100)
         [] k = "dozen_to_count" -> Rat(12, 1)
         [] k = "half_dozen_to_count" -> Rat(6, 1)
         [] k = "stick_butter_to_oz" -> Rat(4, 1)
         [] k = "can_to_oz" -> Rat(145, 10)
         [] k = "package_to_oz" -> Rat(16, 1)]

\* unitConversions[key] is truthy: the key is present (no factor is 0).
HasFactor(key) == key \in DOMAIN unitConversions

\* s.toLowerCase().trim() over the strings the model uses.
LowerTrim(s) ==
    CASE s = "Cups" -> "cups"
      [] s = " tbsp " -> "tbsp"
      [] s = "LBS" -> "lbs"
      [] s = "Flour" -> "flour"
      [] s = " butter" -> "butter"
      [] OTHER -> s

\* normalizeUnit(unit)
normalizeUnit(unit) ==
    LET u == LowerTrim(unit) IN
    IF u \in {"tablespoon", "tablespoons", "tbsp", "tbs", "tb"} THEN "tbsp"
    ELSE IF u \in {"teaspoon", "teaspoons", "tsp", "ts"} THEN "tsp"
    ELSE IF u \in {"cup", "cups", "c"} THEN "cup"
    ELSE IF u \in {"fluid ounce", "fluid oz", "fl oz", "fl. oz."} THEN "oz"
    ELSE IF u \in {"pint", "pints", "pt"} THEN "pint"
    ELSE IF u \in {"quart", "quarts", "qt"} THEN "quart"
    ELSE IF u \in {"gallon", "gallons", "gal"} THEN "gallon"
    ELSE IF u \in {"milliliter", "milliliters", "ml"} THEN "ml"
    ELSE IF u \in {"liter", "liters", "l"} THEN "liter"
    ELSE IF u \in {"ounce", "ounces", "oz"} THEN "oz"
    ELSE IF u \in {"pound", "pounds", "lb", "lbs"} THEN "pound"
    ELSE IF u \in {"gram", "grams", "g"} THEN "g"
    ELSE IF u \in {"kilogram", "kilograms", "kg"} THEN "kg"
    ELSE IF u \in {"each", "ea", "count", "ct", "piece", "pieces", ""} THEN "count"
    ELSE IF u \in {"dozen", "doz"} THEN "dozen"
    ELSE IF u \in {"can", "cans"} THEN "can"
    ELSE IF u \in {"package", "packages", "pkg", "pack"} THEN "package"
    ELSE IF u \in {"bottle", "bottles", "btl"} THEN "bottle"
    ELSE IF u \in {"box", "boxes"} THEN "box"
    ELSE IF u \in {"jar", "jars"} THEN "jar"
    ELSE IF u \in {"stick", "sticks"} THEN "stick"
    ELSE u

\* The not-convertible sentinel (null).
Null == [n |-> 0, d |-> 0]

\* A conversion without the shortcut for equal units.
SameUnitNever(fromUnitNorm, toUnitNorm) == FALSE

\* if (fromUnitNorm === toUnitNorm) return value;
SameUnit(fromUnitNorm, toUnitNorm) == fromUnitNorm = toUnitNorm

\* convertUnit(value, fromUnit, toUnit, ingredient); ingredient "" stands
\* for the absent argument (both are falsy in `if (ingredient)`).
convertUnit(value, fromUnit, toUnit, ingredient) ==
    LET fromUnitNorm == normalizeUnit(fromUnit)
        toUnitNorm == normalizeUnit(toUnit)
        ingNorm == LowerTrim(ingredient)
        specificKey == fromUnitNorm \o "_" \o ingNorm \o "_to_oz"
        tbspKey == "tbsp_" \o ingNorm \o "_to_oz"
        conversionKey == fromUnitNorm \o "_to_" \o toUnitNorm
        reverseKey == toUnitNorm \o "_to_" \o fromUnitNorm
        toOzKey == fromUnitNorm \o "_to_oz"
        fromOzKey == toUnitNorm \o "_to_oz"
        volume == {"tbsp", "tsp", "cup", "pint", "quart", "gallon"}
        mlValue == IF fromUnitNorm = "liter" THEN Mul(value, Rat(1000, 1)) ELSE value
        ozValue == IF fromUnitNorm = "g" THEN Mul(value, unitConversions["g_to_oz"])
                   ELSE IF fromUnitNorm = "kg"
                   THEN Mul(Mul(value, unitConversions["kg_to_pound"]),
                            unitConversions["pound_to_oz"])
                   ELSE Mul(value, unitConversions["pound_to_oz"])
    IN IF SameUnit(fromUnitNorm, toUnitNorm) THEN value
       ELSE IF /\ ingredient # "" /\ fromUnitNorm = "cup" /\ toUnitNorm = "oz"
               /\ HasFactor(specificKey)
       THEN Mul(value, unitConversions[specificKey])
       ELSE IF /\ ingredient # "" /\ fromUnitNorm = "tbsp" /\ toUnitNorm = "oz"
               /\ HasFactor(tbspKey)
       THEN Mul(value, unitConversions[tbspKey])
       ELSE IF HasFactor(conversionKey)
       THEN Mul(value, unitConversions[conversionKey])
       ELSE IF HasFactor(reverseKey)
       THEN Div(value, unitConversions[reverseKey])
       ELSE IF /\ fromUnitNorm \in volume /\ toUnitNorm \in volume
               /\ HasFactor(toOzKey) /\ HasFactor(fromOzKey)
       THEN Div(Mul(value, unitConversions[toOzKey]), unitConversions[fromOzKey])
       ELSE IF fromUnitNorm \in {"ml", "liter"} /\ toUnitNorm \in {"oz", "cup"}
       THEN Mul(Div(mlValue, unitConversions["oz_to_ml"]),
                IF toUnitNorm = "cup" THEN Rat(1, 8) ELSE Rat(1, 1))
       ELSE IF fromUnitNorm \in {"g", "kg", "pound"}
               /\ toUnitNorm \in {"g", "kg", "pound", "oz"}
       THEN (IF toUnitNorm = "g" THEN Div(ozValue, unitConversions["g_to_oz"])
             ELSE IF toUnitNorm = "kg"
             THEN Div(Div(ozValue, unitConversions["pound_to_oz"]),
                      unitConversions["kg_to_pound"])
             ELSE IF toUnitNorm = "pound"
             THEN Div(ozValue, unitConversions["pound_to_oz"])
             ELSE ozValue)
       ELSE Null

\* A tool that formats whatever convertUnit returned as a number.
convertCookingUnitsRunUnchecked(value, fromUnit, toUnit, ingredient) ==
    LET convertedValue == convertUnit(value, fromUnit, toUnit, ingredient)
    IN [value |-> value, fromUnit |-> fromUnit, toUnit |-> toUnit,
        ingredient |-> ingredient, result |-> convertedValue,
        outcome |-> "ok"]

\* The convertCookingUnits tool: the kind of text it returns and the number
\* in it (the decimal formatting of the number is not part of the model).
convertCookingUnitsRun(value, fromUnit, toUnit, ingredient) ==
    LET convertedValue == convertUnit(value, fromUnit, toUnit, ingredient)
    IN [value |-> value, fromUnit |-> fromUnit, toUnit |-> toUnit,
        ingredient |-> ingredient, result |-> convertedValue,
        outcome |-> IF convertedValue # Null THEN "ok" ELSE "notconvertible"]

(* ------------------------------ inputs --------------------------------- *)
\* The arguments the tools are called with.
UseEntries ==
    {[name |-> "EGGS", quantity |-> 2], [name |-> "Kale", quantity |-> 1]}
UseLists == UNION {[1..n -> UseEntries] : n \in 1..MaxEntries}

CookEntries ==
    {[name |-> "Eggs", quantity |-> 2], [name |-> "Rice", quantity |-> 2]}
CookLists == UNION {[1..n -> CookEntries] : n \in 1..MaxEntries}

DeltaEntries ==
    {[name |-> "Eggs", quantity |-> 0 - 4], [name |-> "Kale", quantity |-> 2]}
DeltaLists == UNION {[1..n -> DeltaEntries] : n \in 1..MaxEntries}

RecipeArgs == {"r0"} \cup RecipeIds
AddNames == {"EGGS", "Kale"}
AddQtys == {0 - 1, 2}
\* <<isStaple, minQuantity given, minQuantity>>
StapleArgs == {<<FALSE, FALSE, 0>>, <<TRUE, FALSE, 0>>, <<TRUE, TRUE, 1>>}
Dates == {0, 1, 2}
WantNames == {"Salt", "kale"}
WantQtys == {0 - 1, 1}
Priorities == {"Medium", "High"}
NoFail == {0}
\* The store call of an invocation that throws (0: none does).
FailPoints == 0..MaxFailAt

StockItem(name, q, staple, hasMin, min, expiry) ==
    [name |-> name, quantity |-> q, isStaple |-> staple, hasMin |-> hasMin,
     minQuantity |-> min, expiryDate |-> expiry, archived |-> FALSE]

\* Pantries the store can hold when the server starts.
InitStocks ==
    { << StockItem("Eggs", 3, TRUE, TRUE, 2, 1),
         StockItem("Rice", 1, FALSE, FALSE, 0, 0),
         StockItem("Salt", 2, TRUE, TRUE, 1, 2) >>,
      << StockItem("Eggs", 2, TRUE, TRUE, 0, 0),
         StockItem("Rice", 2, TRUE, FALSE, 0, 1),
         StockItem("Salt", 1, FALSE, FALSE, 0, 1) >> }

\* Shopping lists the store can hold when the server starts.
InitWants ==
    { <<>>,
      << [WantItem("eggs", 1, "Medium", FALSE) EXCEPT !.isPurchased = TRUE],
         WantItem("Kale", 2, "Low", FALSE) >> }

\* The arguments convertCookingUnits is called with.
ConvValues == {Rat(0, 1), Rat(1, 1), Rat(3, 2)}
UnitStrings ==
    {"cup", "Cups", " tbsp ", "tsp", "oz", "fl oz", "ml", "liter", "pint",
     "quart", "gallon", "pound", "LBS", "g", "kg", "dozen", "count", "",
     "stick", "can", "smoot", "cup_flour", "half_dozen"}
Ingredients == {"", "Flour", " butter", "honey", "salt"}

\* The invocations of updatePantryWithUsedItems that can be in flight at once.
Procs == {1, 2}

\* An invocation that has not arrived yet.
Idle ==
    [pc |-> "idle", items |-> <<>>, add |-> FALSE, snap |-> <<>>, k |-> 0,
     outcome |-> "none"]

\* No conversion has been asked for yet.
NoConv ==
    [value |-> Null, fromUnit |-> "", toUnit |-> "", ingredient |-> "",
     result |-> Null, outcome |-> "none"]

(* ------------------------------ actions -------------------------------- *)
Bounded(st) ==
    /\ Len(st.stock) <= MaxStock
    /\ Len(st.want) <= MaxWant
    /\ \A i \in 1..Len(st.stock) :
          st.stock[i].quantity <= MaxQty /\ st.stock[i].quantity >= 0 - MaxQty

\* A handler without its catch block: the exception leaves the handler.
HandlerResultUncaught(st) == IF st.failed THEN "exception" ELSE st.outcome

\* The kind of text a handler returns: its catch block turns an exception
\* thrown by a store call into an error message.
HandlerResult(st) == IF st.failed THEN "error" ELSE st.outcome

\* The handler returns: the store keeps what was written, and the caller
\* sees the text result (the error message alone when a call threw).
Commit(st, call) ==
    /\ steps < MaxSteps
    /\ Bounded(st)
    /\ conv' = conv
    /\ procs' = procs
    /\ stock' = st.stock
    /\ want' = st.want
    /\ tried' = st.tried
    /\ steps' = steps + 1
    /\ last' = [call |-> call,
                outcome |-> HandlerResult(st),
                changes |-> IF st.failed THEN <<>> ELSE st.changes,
                added |-> IF st.failed THEN <<>> ELSE st.added,
                notFound |-> IF st.failed THEN <<>> ELSE st.notFound,
                hasNotFound |-> ~st.failed /\ st.hasNotFound,
                triedStatusUpdated |-> ~st.failed /\ st.triedStatusUpdated,
                upstreamFailure |-> st.failAt # 0 /\ st.calls >= st.failAt,
                failedCall |-> IF st.failAt # 0 /\ st.calls >= st.failAt
                               THEN st.failAt ELSE 0,
                log |-> st.log]

AddPantryItem(F) ==
    \E name \in AddNames, quantity \in AddQtys, expiryDate \in {1},
       sa \in StapleArgs, failAt \in F :
          Commit(addPantryItemRun(name, quantity, expiryDate, sa[1], sa[2], sa[3], failAt),
                 [tool |-> "addPantryItem", name |-> name, quantity |-> quantity])

UpdatePantryItems(F) ==
    \E items \in DeltaLists, failAt \in F :
          Commit(updatePantryItemsRun(items, failAt),
                 [tool |-> "updatePantryItems", items |-> items])

UpdatePantryAfterCookingRecipe(F) ==
    \E recipeId \in RecipeArgs, ings \in {<<>>, <<[name |-> "Rice", quantity |-> 2]>>},
       add \in BOOLEAN, failAt \in F :
          Commit(updatePantryAfterCookingRun(recipeId, ings, add, failAt),
                 [tool |-> "updatePantryAfterCooking", recipeId |-> recipeId,
                  items |-> ings, add |-> add])

UpdatePantryAfterCookingList(F) ==
    \E ings \in {<<>>} \cup CookLists, add \in BOOLEAN, failAt \in F :
          Commit(updatePantryAfterCookingRun("", ings, add, failAt),
                 [tool |-> "updatePantryAfterCooking", recipeId |-> "",
                  items |-> ings, add |-> add])

UpdatePantryWithUsedItems(F) ==
    \E items \in UseLists, add \in BOOLEAN, failAt \in F :
          Commit(updatePantryWithUsedItemsRun(items, add, failAt),
                 [tool |-> "updatePantryWithUsedItems", items |-> items, add |-> add])

AddToShoppingList(F) ==
    \E name \in WantNames, quantity \in WantQtys, priority \in Priorities, failAt \in F :
          Commit(addToShoppingListRun(name, quantity, priority, failAt),
                 [tool |-> "addToShoppingList", name |-> name, quantity |-> quantity,
                  priority |-> priority])

\* The addToShoppingList tool called without a priority.
AddToShoppingListNoPriority(F) ==
    \E name \in WantNames, quantity \in WantQtys, failAt \in F :
          Commit(addToShoppingListRun(name, quantity, "", failAt),
                 [tool |-> "addToShoppingList", name |-> name, quantity |-> quantity,
                  priority |-> ""])

MarkItemAsPurchased(F) ==
    \E itemId \in 1..Len(want), failAt \in F :
          Commit(markItemAsPurchasedRun(itemId, failAt),
                 [tool |-> "markItemAsPurchased", itemId |-> itemId])

AddPurchasedItemsToPantry(F) ==
    \E failAt \in F :
          Commit(addPurchasedItemsToPantryRun(failAt),
                 [tool |-> "addPurchasedItemsToPantry"])

RemoveExpiredItems(F) ==
    \E checkExpiryBefore \in Dates, add \in BOOLEAN, dryRun \in BOOLEAN, failAt \in F :
          Commit(removeExpiredItemsRun(checkExpiryBefore, add, dryRun, failAt),
                 [tool |-> "removeExpiredItems", cutoff |-> checkExpiryBefore,
                  add |-> add, dryRun |-> dryRun])

\* The convertCookingUnits tool: no store call, one text result.
ConvertCookingUnits ==
    \E value \in ConvValues, fromUnit \in UnitStrings, toUnit \in UnitStrings,
       ingredient \in Ingredients :
          /\ steps < MaxSteps
          /\ conv' = convertCookingUnitsRun(value, fromUnit, toUnit, ingredient)
          /\ last' = [call |-> [tool |-> "convertCookingUnits"],
                      outcome |-> conv'.outcome, changes |-> <<>>, added |-> <<>>,
                      notFound |-> <<>>, hasNotFound |-> FALSE,
                      triedStatusUpdated |-> FALSE, upstreamFailure |-> FALSE,
                      failedCall |-> 0, log |-> <<>>]
          /\ steps' = steps + 1
          /\ UNCHANGED <<stock, want, tried, procs>>

\* The convertCookingUnits tool asked to convert the number it last returned
\* back into the unit it came from, for the same ingredient.
ConvertBack ==
    /\ steps < MaxSteps
    /\ conv.outcome = "ok"
    /\ conv' = convertCookingUnitsRun(conv.result, conv.toUnit, conv.fromUnit,
                                      conv.ingredient)
    /\ last' = [call |-> [tool |-> "convertCookingUnits"],
                outcome |-> conv'.outcome, changes |-> <<>>, added |-> <<>>,
                notFound |-> <<>>, hasNotFound |-> FALSE,
                triedStatusUpdated |-> FALSE, upstreamFailure |-> FALSE,
                failedCall |-> 0, log |-> <<>>]
    /\ steps' = steps + 1
    /\ UNCHANGED <<stock, want, tried, procs>>

\* The server starts: the store holds a pantry and one of the lists wants.
InitStore(wants) ==
    /\ stock \in InitStocks
    /\ want \in wants
    /\ tried = [r \in RecipeIds |-> r = "r2"]
    /\ last = [call |-> [tool |-> "none"], outcome |-> "none", changes |-> <<>>,
               added |-> <<>>, notFound |-> <<>>, hasNotFound |-> FALSE,
               triedStatusUpdated |-> FALSE, upstreamFailure |-> FALSE,
               failedCall |-> 0, log |-> <<>>]
    /\ conv = NoConv
    /\ procs = [p \in Procs |-> Idle]
    /\ steps = 0

Init == InitStore(InitWants)

\* Sequential tool invocations in which every store call succeeds.
Next ==
    \/ AddPantryItem(NoFail)
    \/ UpdatePantryItems(NoFail)
    \/ UpdatePantryAfterCookingRecipe(NoFail)
    \/ UpdatePantryAfterCookingList(NoFail)
    \/ UpdatePantryWithUsedItems(NoFail)
    \/ AddToShoppingList(NoFail)
    \/ MarkItemAsPurchased(NoFail)
    \/ AddPurchasedItemsToPantry(NoFail)
    \/ RemoveExpiredItems(NoFail)

Spec == Init /\ [][Next]_vars

\* Shopping lists with several purchased entries, two of them of one name.
ShopWants ==
    InitWants \cup
    { << [WantItem("kale", 1, "Medium", FALSE) EXCEPT !.isPurchased = TRUE],
         [WantItem("Kale", 2, "High", TRUE) EXCEPT !.isPurchased = TRUE],
         WantItem("Salt", 1, "Medium", FALSE) >>,
      << [WantItem("kale", 1, "Medium", FALSE) EXCEPT !.isPurchased = TRUE] >> }

InitShop == InitStore(ShopWants)

\* The shopping-list tools alone: enqueue, mark as purchased, transfer.
NextShop ==
    \/ AddToShoppingList(NoFail)
    \/ AddToShoppingListNoPriority(NoFail)
    \/ MarkItemAsPurchased(NoFail)
    \/ AddPurchasedItemsToPantry(NoFail)

SpecShop == InitShop /\ [][NextShop]_vars

(* ---------------- concurrent updatePantryWithUsedItems ---------------- *)
\* A store that rejects a write to a page that changed since it was read.
StoreAcceptsIfUnchanged(snapItem, storedItem) == snapItem.quantity = storedItem.quantity

\* notion.pages.update carries no version of the page: the store accepts
\* the write whatever happened to the page since the handler read it.
StoreAccepts(snapItem, storedItem) == TRUE

\* The position of invocation p after entry k: the next entry, or the return.
Advance(pr) ==
    IF pr.k + 1 > Len(pr.items)
    THEN [pr EXCEPT !.k = @ + 1, !.pc = "done", !.outcome = "ok"]
    ELSE [pr EXCEPT !.k = @ + 1, !.pc = "loop"]

\* await notionService.getPantryItems(): the invocation takes its snapshot.
ConcRead(p) ==
    \E items \in UseLists, add \in BOOLEAN :
       /\ procs[p].pc = "idle"
       /\ procs' = [procs EXCEPT ![p] = [pc |-> "loop", items |-> items, add |-> add,
                                         snap |-> stock, k |-> 1, outcome |-> "none"]]
       /\ UNCHANGED <<stock, want, tried, last, conv, steps>>

\* One entry of the loop up to its await notionService.updatePantryItem.
ConcUpdate(p) ==
    LET pr == procs[p]
        item == pr.items[pr.k]
        id == FindByName(pr.snap, item.name)
        newQuantity == Max0(pr.snap[id].quantity - item.quantity)
    IN /\ pr.pc = "loop"
       /\ IF id = 0
          THEN /\ procs' = [procs EXCEPT ![p] = Advance(pr)]
               /\ stock' = stock
          ELSE IF ~StoreAccepts(pr.snap[id], stock[id])
          THEN /\ procs' = [procs EXCEPT ![p] = [pr EXCEPT !.pc = "done", !.outcome = "error"]]
               /\ stock' = stock
          ELSE /\ stock' = updatePantryItem(NewRun(0), id, newQuantity).stock
               /\ procs' = [procs EXCEPT ![p] =
                              IF CrossesMin(pr.add, pr.snap[id], newQuantity)
                              THEN [pr EXCEPT !.pc = "add"]
                              ELSE Advance(pr)]
       /\ UNCHANGED <<want, tried, last, conv, steps>>

\* await notionService.addToShoppingList for the entry just written.
ConcAdd(p) ==
    LET pr == procs[p]
        q == pr.snap[FindByName(pr.snap, pr.items[pr.k].name)]
    IN /\ pr.pc = "add"
       /\ want' = addToShoppingListSvc(NewRun(0),
                      WantItem(q.name, IF q.minQuantity # 0 THEN q.minQuantity ELSE 1,
                               "Medium", TRUE)).want
       /\ procs' = [procs EXCEPT ![p] = Advance(pr)]
       /\ UNCHANGED <<stock, tried, last, conv, steps>>

NextConc == \E p \in Procs : ConcRead(p) \/ ConcUpdate(p) \/ ConcAdd(p)

SpecConc == Init /\ [][NextConc]_vars

\* Purchases and transfers in which a store call of the transfer may fail;
\* the next transfer is the retry.
NextRetry ==
    \/ MarkItemAsPurchased(NoFail)
    \/ AddPurchasedItemsToPantry(FailPoints)

SpecRetry == InitShop /\ [][NextRetry]_vars

\* The unit conversion tool alone: one conversion on the server as it starts,
\* then conversions of the result back.
NextConv == (steps = 0 /\ ConvertCookingUnits) \/ ConvertBack

SpecConv == Init /\ [][NextConv]_vars

\* One tool invocation on the store the server starts with, in which any one
\* of its store calls may throw.
NextFail ==
    /\ steps = 0
    /\ \/ AddPantryItem(FailPoints)
       \/ UpdatePantryItems(FailPoints)
       \/ UpdatePantryAfterCookingRecipe(FailPoints)
       \/ UpdatePantryAfterCookingList(FailPoints)
       \/ UpdatePantryWithUsedItems(FailPoints)
       \/ AddToShoppingList(FailPoints)
       \/ MarkItemAsPurchased(FailPoints)
       \/ AddPurchasedItemsToPantry(FailPoints)
       \/ RemoveExpiredItems(FailPoints)
       \/ ConvertCookingUnits

SpecFail == Init /\ [][NextFail]_vars

(* ------------------------- vocabulary of the claims -------------------- *)
IsCooking(call) ==
    call.tool \in {"updatePantryAfterCooking", "updatePantryWithUsedItems"}

IsRecipeCall(call) ==
    call.tool = "updatePantryAfterCooking" /\ call.recipeId \in RecipeIds

IsListCall(call) ==
    \/ call.tool = "updatePantryWithUsedItems"
    \/ (call.tool = "updatePantryAfterCooking" /\ call.recipeId = "" /\ Len(call.items) > 0)

\* The usage request of a reconciliation call.
Request(call) ==
    IF IsRecipeCall(call) THEN RecipeIngredients(call.recipeId)
    ELSE IF IsListCall(call) THEN call.items
    ELSE <<>>

\* The request without the ingredients a recipe marks optional.
RequiredRequest(call) ==
    SelectSeq(Request(call), LAMBDA e : ~(IsRecipeCall(call) /\ e.isOptional))

\* No StockItem is named by two entries of the request.
NamedOnce(req) ==
    \A k1, k2 \in 1..Len(req) :
       (k1 # k2 /\ FindByName(stock, req[k1].name) # 0)
          => FindByName(stock, req[k1].name) # FindByName(stock, req[k2].name)

\* The entries of a request that match a StockItem of the pantry.
MatchedEntries(items, req) == SelectSeq(req, LAMBDA e : FindByName(items, e.name) # 0)

UpdateWrites(log) == SelectSeq(log, LAMBDA w : w.op = "updatePantryItem")

\* The WantListItems this step created, and those created for StockItem i.
NewWants == (Len(want) + 1)..Len(want')
NewWantsFor(i) == {j \in NewWants : Lower(want'[j].name) = Lower(stock[i].name)}

IsMatched(i, req) == \E k \in 1..Len(req) : FindByName(stock, req[k].name) = i

\* StockItem i goes from above its minimum to at or below it in this step.
Crossing(i) ==
    /\ stock[i].isStaple
    /\ stock[i].hasMin
    /\ stock[i].quantity > stock[i].minQuantity
    /\ stock'[i].quantity <= stock[i].minQuantity

RECURSIVE TotalFor(_, _, _)
TotalFor(i, req, k) ==
    IF k > Len(req) THEN 0
    ELSE (IF FindByName(stock, req[k].name) = i THEN req[k].quantity ELSE 0)
         + TotalFor(i, req, k + 1)

RECURSIVE UnmatchedNames(_, _)
UnmatchedNames(items, req) ==
    IF req = <<>> THEN <<>>
    ELSE (IF FindByName(items, Head(req).name) = 0 THEN <<Head(req).name>> ELSE <<>>)
         \o UnmatchedNames(items, Tail(req))

Cooked(l) == IsCooking(l.call) /\ l.outcome = "ok"

(* ------------------------------- claims -------------------------------- *)
\* C1: every active StockItem has quantity >= 0 in every reachable state,
\* whatever numbers (negative ones included) the tools are called with.
C1_QuantityNonNegative ==
    \A i \in 1..Len(stock) : ~stock[i].archived => stock[i].quantity >= 0

\* C2: every quantity a cooking reconciliation writes equals
\* max(0, quantity - neededQty), where quantity is the on-hand quantity the
\* handler read for the matched item; it is never below zero and over-use
\* floors the item at exactly 0.
C2_ClampedWrites ==
    [][IsCooking(last'.call) =>
         \A m \in {MatchedEntries(stock, Request(last'.call))},
            ups \in {UpdateWrites(last'.log)} :
            /\ Len(ups) <= Len(m)
            /\ ~last'.upstreamFailure => Len(ups) = Len(m)
            /\ \A k \in 1..Len(ups) :
                  \A id \in {FindByName(stock, m[k].name)} :
                     LET q == stock[id].quantity
                         n == m[k].quantity
                     IN /\ ups[k].id = id
                        /\ ups[k].quantity >= 0
                        /\ ups[k].quantity = (IF q - n > 0 THEN q - n ELSE 0)
                        /\ (n >= q /\ q >= 0 => ups[k].quantity = 0)]_vars

\* C2 witness: a reconciliation has over-used an item and left it at 0.
C2_Witness ==
    /\ Cooked(last)
    /\ \E k \in 1..Len(last.changes) :
          /\ last.changes[k].before > 0
          /\ last.changes[k].after = 0
          /\ \E w \in 1..Len(last.log) :
                last.log[w].op = "updatePantryItem" /\ last.log[w].quantity = 0

\* C3: with addToShoppingList enabled, a cooking reconciliation creates a
\* WantListItem for a matched StockItem if and only if the item is a staple
\* with a defined minQuantity whose quantity was above the minimum before
\* the update and is at or below it afterwards.
C3_ReplenishIffCrossing ==
    [][(Cooked(last') /\ last'.call.add /\ NamedOnce(Request(last'.call))) =>
         \A i \in 1..Len(stock) :
            (~stock[i].archived /\ IsMatched(i, RequiredRequest(last'.call)))
               => (NewWantsFor(i) # {} <=> Crossing(i))]_vars

\* C4: replenishment fires exactly once per crossing: a usage invocation
\* adds exactly one WantListItem for a staple whose stored quantity it takes
\* from above minQuantity to at or below it, and none for a staple whose
\* stored quantity it finds already at or below minQuantity.
C4_OncePerCrossing ==
    [][(Cooked(last') /\ last'.call.add /\ NamedOnce(Request(last'.call))) =>
         \A i \in 1..Len(stock) :
            (/\ ~stock[i].archived /\ stock[i].isStaple /\ stock[i].hasMin
             /\ IsMatched(i, RequiredRequest(last'.call)))
               => Cardinality(NewWantsFor(i)) = (IF Crossing(i) THEN 1 ELSE 0)]_vars

\* C5: one reconciliation invocation creates at most one WantListItem for a
\* StockItem, also when the request names that item in several entries.
C5_AtMostOnePerRun ==
    [][(IsListCall(last'.call) /\ last'.outcome = "ok") =>
         \A i \in 1..Len(stock) : Cardinality(NewWantsFor(i)) <= 1]_vars

\* C6: after a successful invocation each matched item's stored quantity is
\* its pre-invocation quantity minus the total requested for it across all
\* entries, floored at zero.
C6_TotalDecrement ==
    [][(IsListCall(last'.call) /\ last'.outcome = "ok") =>
         \A i \in 1..Len(stock) :
            (~stock[i].archived /\ IsMatched(i, last'.call.items))
               => LET d == stock[i].quantity - TotalFor(i, last'.call.items, 1)
                  IN stock'[i].quantity = (IF d > 0 THEN d ELSE 0)]_vars

\* C7: every WantListItem created by replenishment has quantity equal to the
\* StockItem's minQuantity, isAutoAdded = true and isPurchased = false, with
\* priority Medium from a cooking reconciliation and High from expiry removal.
C7_ReplenishmentShape ==
    [][(IsCooking(last'.call) \/ last'.call.tool = "removeExpiredItems") =>
         \A j \in NewWants :
            LET i == FindByName(stock, want'[j].name)
            IN /\ want'[j].isAutoAdded
               /\ ~want'[j].isPurchased
               /\ i # 0
               /\ stock[i].hasMin
               /\ want'[j].quantity = stock[i].minQuantity
               /\ want'[j].priority = (IF IsCooking(last'.call) THEN "Medium" ELSE "High")]_vars

\* C8: a recipe-driven updatePantryAfterCooking leaves the StockItem of every
\* optional ingredient unchanged and creates no WantListItem on its account.
C8_OptionalUntouched ==
    [][(IsRecipeCall(last'.call) /\ last'.outcome = "ok") =>
         LET ings == RecipeIngredients(last'.call.recipeId)
         IN \A k \in 1..Len(ings) :
               LET i == FindByName(stock, ings[k].name)
               IN (ings[k].isOptional /\ i # 0)
                     => (stock'[i] = stock[i] /\ NewWantsFor(i) = {})]_vars

\* The frame of an unmatched ingredient: the invocation returns normally,
\* creates no StockItem, changes only StockItems the request matches, creates
\* WantListItems only for those, and still writes every matched entry.
UnmatchedSkipped(req) ==
    /\ last'.outcome = "ok"
    /\ Len(stock') = Len(stock)
    /\ \A i \in 1..Len(stock) : ~IsMatched(i, req) => stock'[i] = stock[i]
    /\ \A j \in NewWants : FindByName(stock, want'[j].name) # 0
                           /\ IsMatched(FindByName(stock, want'[j].name), req)
    /\ \A j \in 1..Len(want) : want'[j] = want[j]
    /\ Len(UpdateWrites(last'.log)) = Len(MatchedEntries(stock, req))

\* C9 as stated: in every reconciliation path an ingredient that matches no
\* StockItem is skipped without error and its name is in the returned list
\* of not-found names.
C9_NotFoundReportedEverywhere ==
    [][((IsRecipeCall(last'.call) \/ IsListCall(last'.call)) /\ ~last'.upstreamFailure) =>
         \A req \in {Request(last'.call)} :
            /\ UnmatchedSkipped(req)
            /\ \A k \in 1..Len(req) :
                  FindByName(stock, req[k].name) = 0
                     => \E n \in 1..Len(last'.notFound) : last'.notFound[n] = req[k].name]_vars

\* C9 amended: in every reconciliation path an ingredient that matches no
\* StockItem is skipped without error, nothing is created or changed on its
\* account and the remaining ingredients are processed; updatePantryWithUsedItems
\* returns the unmatched names, in request order, as notFoundItems, and
\* updatePantryAfterCooking returns no not-found list.
C9_NotFoundSkipped ==
    [][((IsRecipeCall(last'.call) \/ IsListCall(last'.call)) /\ ~last'.upstreamFailure) =>
         \A req \in {Request(last'.call)} :
            /\ UnmatchedSkipped(req)
            /\ last'.call.tool = "updatePantryWithUsedItems"
                  => /\ last'.hasNotFound
                     /\ last'.notFound = UnmatchedNames(stock, req)
            /\ last'.call.tool = "updatePantryAfterCooking"
                  => ~last'.hasNotFound /\ last'.notFound = <<>>]_vars

\* C9 witness: updatePantryWithUsedItems has reported an unmatched name and
\* has also updated a matched item of the same request.
C9_Witness ==
    /\ last.call.tool = "updatePantryWithUsedItems"
    /\ last.outcome = "ok"
    /\ Len(last.notFound) > 0
    /\ Len(last.changes) > 0
    /\ \E k \in 1..Len(last.call.items) :
          k > 1 /\ last.call.items[1].name = last.notFound[1]
                /\ last.call.items[k].name = last.changes[1].name

\* C10: a recipe-driven updatePantryAfterCooking that completes without an
\* upstream failure leaves the recipe tried; on an already-tried recipe it
\* issues no write to the recipe record; no step resets tried to false.
C10_TriedIdempotent ==
    [][/\ \A r \in RecipeIds : tried[r] => tried'[r]
       /\ (IsRecipeCall(last'.call) /\ last'.outcome = "ok" /\ ~last'.upstreamFailure)
             => /\ tried'[last'.call.recipeId]
                /\ tried[last'.call.recipeId]
                      => /\ \A w \in 1..Len(last'.log) : last'.log[w].op # "markRecipeAsTried"
                         /\ ~last'.triedStatusUpdated]_vars

\* C10 witness: a recipe that was not tried has been cooked and is now tried.
C10_Witness ==
    /\ last.call.tool = "updatePantryAfterCooking"
    /\ last.outcome = "ok"
    /\ last.call.recipeId = "r1"
    /\ last.triedStatusUpdated
    /\ tried["r1"]
    /\ \E w \in 1..Len(last.log) : last.log[w].op = "markRecipeAsTried"

\* The run of a reconciliation call from the current store when the failAt-th
\* store call throws (0: none).
CookingRun(call, failAt) ==
    IF call.tool = "updatePantryWithUsedItems"
    THEN updatePantryWithUsedItemsRun(call.items, call.add, failAt)
    ELSE updatePantryAfterCookingRun(call.recipeId, call.items, call.add, failAt)

\* The store call that handles the first ingredient: the list paths read the
\* pantry first; the recipe path reads the recipe and the pantry twice each.
FirstLoopCall(call) == IF IsRecipeCall(call) THEN 5 ELSE 2

\* The writes of the ingredient loop, one store call each.
LoopWrites(log) ==
    SelectSeq(log, LAMBDA w : w.op \in {"updatePantryItem", "addToShoppingList"})

\* The quantity the last write of log to StockItem i left, q if there is none.
RECURSIVE LastWritten(_, _, _)
LastWritten(log, i, q) ==
    IF log = <<>> THEN q
    ELSE LastWritten(Tail(log), i,
                     IF Head(log).op = "updatePantryItem" /\ Head(log).id = i
                     THEN Head(log).quantity ELSE q)

\* C11: when a store call fails while a reconciliation is processing an
\* ingredient, the invocation returns one error message, the writes issued
\* before the failing call stay in the store (no rollback) and no write of
\* the rest of the request is issued.
C11_AbortKeepsPrefix ==
    [][(IsCooking(last'.call) /\ last'.failedCall # 0) =>
         \A ok \in {CookingRun(last'.call, 0)} :
            \A done \in {last'.failedCall - FirstLoopCall(last'.call)} :
               (done >= 0 /\ done < Len(LoopWrites(ok.log))) =>
                  /\ last'.outcome = "error"
                  /\ last'.changes = <<>> /\ last'.added = <<>> /\ last'.notFound = <<>>
                  /\ last'.log = SubSeq(ok.log, 1, done)
                  /\ Len(stock') = Len(stock)
                  /\ \A i \in 1..Len(stock) :
                        stock'[i] = [stock[i] EXCEPT
                                       !.quantity = LastWritten(last'.log, i, stock[i].quantity)]
                  /\ Len(want') = Len(want) + Len(SelectSeq(last'.log,
                                        LAMBDA w : w.op = "addToShoppingList"))
                  /\ \A j \in 1..Len(want') :
                        want'[j] = IF j <= Len(want) THEN want[j] ELSE ok.want[j]
                  /\ tried' = tried]_vars

\* C11 witness: updatePantryWithUsedItems has failed on a later store call
\* after at least one write, and the written quantity is in the store.
C11_Witness ==
    /\ last.call.tool = "updatePantryWithUsedItems"
    /\ last.outcome = "error"
    /\ Len(last.call.items) >= 2
    /\ Len(last.log) >= 1
    /\ last.failedCall = Len(last.log) + 2
    /\ last.log[1].op = "updatePantryItem"
    /\ stock[last.log[1].id].quantity = last.log[1].quantity

\* The kinds of text a tool returns.
Messages == {"ok", "error", "notfound", "missing", "nothing", "notconvertible"}

\* C12: every tool invocation returns a text result whatever store call
\* fails; the recipe-not-found and missing-input answers are returned before
\* any write, and a not-convertible answer leaves the store alone too.
C12_AlwaysReturnsText ==
    [][/\ last'.outcome \in Messages
       /\ last'.failedCall # 0 => last'.outcome \in {"error", "notfound", "ok"}
       /\ last'.outcome \in {"notfound", "missing", "notconvertible"}
             => /\ last'.log = <<>>
                /\ stock' = stock /\ want' = want /\ tried' = tried]_vars

\* C12 witness: an invocation whose store call threw has returned an error
\* message after it had already written to the store.
C12_Witness ==
    /\ last.outcome = "error"
    /\ last.failedCall >= 2
    /\ Len(last.log) >= 1

IsTransfer(l) == l.call.tool = "addPurchasedItemsToPantry"

ActivePurchased(items, j) == ~items[j].archived /\ items[j].isPurchased

\* The sum of the quantities of the active purchased WantListItems of a name.
RECURSIVE SumPurchased(_, _, _)
SumPurchased(items, name, j) ==
    IF j > Len(items) THEN 0
    ELSE (IF ActivePurchased(items, j) /\ Lower(items[j].name) = Lower(name)
          THEN items[j].quantity ELSE 0)
         + SumPurchased(items, name, j + 1)

NamesPurchased(items) == {items[j].name : j \in {k \in 1..Len(items) : ActivePurchased(items, k)}}

\* C13: a successful addPurchasedItemsToPantry archives every purchased
\* WantListItem, leaves the unpurchased ones unchanged, and leaves for each
\* purchased name one active StockItem whose quantity is its previous
\* quantity (0 if there was none) plus the sum of the purchased quantities of
\* that name; a StockItem it creates is not a staple, and no other StockItem
\* changes.
C13_TransferMerges ==
    [][(IsTransfer(last') /\ last'.outcome = "ok") =>
         /\ Len(want') = Len(want)
         /\ \A j \in 1..Len(want) :
               IF ActivePurchased(want, j)
               THEN want'[j] = [want[j] EXCEPT !.archived = TRUE]
               ELSE want'[j] = want[j]
         /\ \A name \in NamesPurchased(want) :
               \A b \in {FindByName(stock, name)}, a \in {FindByName(stock', name)} :
                  /\ a # 0
                  /\ stock'[a].quantity =
                        (IF b # 0 THEN stock[b].quantity ELSE 0) + SumPurchased(want, name, 1)
                  /\ b # 0 => a = b
                  /\ b = 0 => a > Len(stock) /\ ~stock'[a].isStaple
         /\ \A i \in 1..Len(stock) :
               (\A name \in NamesPurchased(want) : FindByName(stock, name) # i)
                  => stock'[i] = stock[i]
         /\ Len(stock') <= Len(stock) + Cardinality({Lower(n) : n \in NamesPurchased(want)})]_vars

\* C13 witness: a transfer has merged two purchased entries of one name
\* into a StockItem it created.
C13_Witness ==
    /\ IsTransfer(last)
    /\ last.outcome = "ok"
    /\ Len(last.changes) >= 2
    /\ \E w \in 1..Len(last.log) :
          /\ last.log[w].op = "addPantryItem"
          /\ stock[last.log[w].id].quantity > last.log[w].quantity

\* C14: addPurchasedItemsToPantry with no active purchased WantListItem
\* writes nothing and changes nothing, and a successful transfer leaves no
\* active purchased WantListItem, so a call right after it changes nothing.
C14_TransferIdempotent ==
    [][IsTransfer(last') =>
         /\ (\A j \in 1..Len(want) : ~ActivePurchased(want, j))
               => /\ last'.outcome = "nothing"
                  /\ last'.log = <<>>
                  /\ stock' = stock /\ want' = want /\ tried' = tried
         /\ last'.outcome = "ok"
               => \A j \in 1..Len(want') : ~ActivePurchased(want', j)]_vars

\* C14 witness: a call right after a transfer has found nothing to transfer.
C14_Witness ==
    /\ IsTransfer(last)
    /\ last.outcome = "nothing"
    /\ last.log = <<>>
    /\ \E j \in 1..Len(want) : want[j].archived /\ want[j].isPurchased

IsExpiryCall(l) == l.call.tool = "removeExpiredItems"

\* The cutoff date of a removeExpiredItems call.
Cutoff(call) == IF call.cutoff # 0 THEN call.cutoff ELSE Today

\* StockItem i is active and its expiry date is on or before d.
ExpiredBy(items, i, d) ==
    ~items[i].archived /\ items[i].expiryDate # 0 /\ items[i].expiryDate <= d

DeleteWrites(log) == SelectSeq(log, LAMBDA w : w.op = "deletePantryItem")
WantWrites(log) == SelectSeq(log, LAMBDA w : w.op = "addToShoppingList")

\* C15: removeExpiredItems with dryRun = true issues no write and changes no
\* StockItem and no WantListItem, and the removedItems and addedToShoppingList
\* it reports are the items the same call with dryRun = false would archive
\* and enqueue from the same state.
C15_DryRunWritesNothing ==
    [][(IsExpiryCall(last') /\ last'.call.dryRun) =>
         /\ last'.log = <<>>
         /\ stock' = stock /\ want' = want /\ tried' = tried
         /\ \A real \in {removeExpiredItemsRun(last'.call.cutoff, last'.call.add, FALSE, 0)} :
               \A dels \in {DeleteWrites(real.log)}, adds \in {WantWrites(real.log)} :
                  /\ last'.outcome = real.outcome
                  /\ Len(last'.changes) = Len(dels)
                  /\ \A k \in 1..Len(dels) :
                        /\ real.stock[dels[k].id].archived
                        /\ last'.changes[k] = [name |-> stock[dels[k].id].name,
                                               quantity |-> stock[dels[k].id].quantity]
                  /\ Len(last'.added) = Len(adds)
                  /\ \A k \in 1..Len(adds) :
                        last'.added[k] = real.want[adds[k].id].name]_vars

\* C15 witness: a dry run has reported an expired staple and its
\* replacement while the item is still active in the pantry.
C15_Witness ==
    /\ IsExpiryCall(last)
    /\ last.call.dryRun
    /\ last.outcome = "ok"
    /\ Len(last.changes) >= 1
    /\ Len(last.added) >= 1
    /\ FindByName(stock, last.changes[1].name) # 0

NamesUnique(items) ==
    \A i, j \in 1..Len(items) :
       (i # j /\ ~items[i].archived /\ ~items[j].archived)
          => Lower(items[i].name) # Lower(items[j].name)

\* The active StockItems whose name equals name ignoring case.
SameName(items, name) ==
    {i \in 1..Len(items) : ~items[i].archived /\ Lower(items[i].name) = Lower(name)}

\* C17: sequential tool invocations keep the names of the active StockItems
\* unique under case-insensitive comparison, and addPantryItem with a name
\* that exists increments that item instead of creating a second one.
C17_NameIsUniqueKey ==
    [][NamesUnique(stock) =>
         /\ NamesUnique(stock')
         /\ (last'.call.tool = "addPantryItem" /\ last'.outcome = "ok"
              /\ SameName(stock, last'.call.name) # {})
               => /\ Len(stock') = Len(stock)
                  /\ \A i \in 1..Len(stock) :
                        stock'[i].quantity =
                           IF i \in SameName(stock, last'.call.name)
                           THEN stock[i].quantity + last'.call.quantity
                           ELSE stock[i].quantity]_vars

\* C17 witness: addPantryItem under another spelling of an existing name has
\* updated the existing item, and the pantry has grown by another tool.
C17_Witness ==
    /\ NamesUnique(stock)
    /\ last.call.tool = "addPantryItem"
    /\ last.call.name = "EGGS"
    /\ last.outcome = "ok"
    /\ Len(last.log) = 1
    /\ last.log[1].op = "updatePantryItem"
    /\ stock[last.log[1].id].name = "Eggs"
    /\ Len(stock) = 4

\* C18: concurrent invocations are neither rejected nor retried, and every
\* write stores the quantity its invocation computed from its own snapshot,
\* whatever the store holds by then (the last writer wins).
C18_LastWriterWins ==
    [][\A p \in Procs :
          /\ procs'[p].outcome # "error"
          /\ procs'[p].k \in {procs[p].k, procs[p].k + 1}
          /\ (procs[p].pc = "loop" /\ procs'[p] # procs[p])
                => \A id \in {FindByName(procs[p].snap, procs[p].items[procs[p].k].name)} :
                      id # 0 => stock'[id].quantity =
                                   Max0(procs[p].snap[id].quantity
                                        - procs[p].items[procs[p].k].quantity)]_vars

\* C18 witness: two invocations that read the same quantity of an item have
\* both returned normally and the stored quantity reflects only one
\* decrement.
C18_Witness ==
    \E p, q \in Procs, i \in 1..Len(stock) :
       /\ p # q
       /\ procs[p].pc = "done" /\ procs[q].pc = "done"
       /\ procs[p].outcome = "ok" /\ procs[q].outcome = "ok"
       /\ Len(procs[p].items) = 1 /\ Len(procs[q].items) = 1
       /\ FindByName(procs[p].snap, procs[p].items[1].name) = i
       /\ FindByName(procs[q].snap, procs[q].items[1].name) = i
       /\ procs[p].snap[i].quantity = procs[q].snap[i].quantity
       /\ stock[i].quantity = procs[p].snap[i].quantity - procs[p].items[1].quantity
       /\ stock[i].quantity > Max0(procs[p].snap[i].quantity - procs[p].items[1].quantity
                                   - procs[q].items[1].quantity)

\* C19: a conversion between two unit strings that are equal, or that
\* normalize to the same canonical unit, returns the value unchanged, for
\* recognised and unrecognised units and whatever the ingredient is.
C19_SameUnitReturnsValue ==
    (/\ conv.outcome # "none"
     /\ \/ conv.fromUnit = conv.toUnit
        \/ normalizeUnit(conv.fromUnit) = normalizeUnit(conv.toUnit))
       => /\ conv.result = conv.value
          /\ conv.outcome = "ok"

\* C19 witness: 3/2 "Cups" of flour converted to "cup", and 3/2 of an
\* unrecognised unit converted to itself, come back as 3/2.
C19_Witness ==
    /\ conv.outcome = "ok"
    /\ conv.value = Rat(3, 2)
    /\ conv.result = Rat(3, 2)
    /\ \/ conv.fromUnit = "Cups" /\ conv.toUnit = "cup" /\ conv.ingredient = "Flour"
       \/ conv.fromUnit = "smoot" /\ conv.toUnit = "smoot"

\* The table holds a factor from a to b or from b to a.
DirectOrReverse(a, b) == HasFactor(a \o "_to_" \o b) \/ HasFactor(b \o "_to_" \o a)

\* This step converts the result of the last conversion back.
IsRoundTrip ==
    /\ conv.outcome = "ok"
    /\ steps' = steps + 1
    /\ conv'.value = conv.result
    /\ conv'.fromUnit = conv.toUnit
    /\ conv'.toUnit = conv.fromUnit
    /\ conv'.ingredient = conv.ingredient

\* C20: for a unit pair with a direct or a reverse factor in the table,
\* converting a value and converting the result back returns the value.
C20_RoundTrip ==
    [][(/\ IsRoundTrip
        /\ DirectOrReverse(normalizeUnit(conv.fromUnit), normalizeUnit(conv.toUnit)))
          => conv'.result = conv.value]_vars

\* The canonical units of the last conversion.
FromNorm == normalizeUnit(conv.fromUnit)
ToNorm == normalizeUnit(conv.toUnit)

\* Some conversion path leads from unit a to unit b for the ingredient: equal
\* units, an ingredient factor, a direct or reverse factor, or two hops.
PathResolves(a, b, ing) ==
    \/ a = b
    \/ /\ ing # "" /\ a \in {"cup", "tbsp"} /\ b = "oz"
       /\ HasFactor(a \o "_" \o LowerTrim(ing) \o "_to_oz")
    \/ DirectOrReverse(a, b)
    \/ /\ {a, b} \subseteq {"tbsp", "tsp", "cup", "pint", "quart", "gallon"}
       /\ HasFactor(a \o "_to_oz") /\ HasFactor(b \o "_to_oz")
    \/ a \in {"ml", "liter"} /\ b \in {"oz", "cup"}
    \/ a \in {"g", "kg", "pound"} /\ b \in {"g", "kg", "pound", "oz"}

\* C21: when no conversion path resolves between the two normalized units,
\* convertUnit returns the not-convertible sentinel and the tool answers
\* "not supported"; the tool answers so only for the sentinel.
C21_NoPathIsSentinel ==
    conv.outcome # "none" =>
       /\ ~PathResolves(FromNorm, ToNorm, conv.ingredient)
            => conv.result = Null /\ conv.outcome = "notconvertible"
       /\ conv.outcome = "notconvertible" <=> conv.result = Null
       /\ conv.outcome \in {"ok", "notconvertible"}

\* C21 witness: 3/2 smoot asked in oz is answered "not supported".
C21_Witness ==
    /\ conv.fromUnit = "smoot"
    /\ conv.toUnit = "oz"
    /\ conv.value = Rat(3, 2)
    /\ conv.result = Null
    /\ conv.outcome = "notconvertible"

\* The key of the ingredient-specific factor of the last conversion.
SpecificKey == FromNorm \o "_" \o LowerTrim(conv.ingredient) \o "_to_oz"

\* C22: with an ingredient given, the target unit oz and an
\* ingredient-specific factor in the table for (from unit, ingredient), the
\* result is the value times that factor, for every such table entry.
C22_IngredientFactorPreferred ==
    (/\ conv.outcome # "none"
     /\ conv.ingredient # ""
     /\ ToNorm = "oz"
     /\ FromNorm # "oz"
     /\ HasFactor(SpecificKey))
       => conv.result = Mul(conv.value, unitConversions[SpecificKey])

VolumeUnits == {"tbsp", "tsp", "cup", "pint", "quart", "gallon"}
WeightUnits == {"g", "kg", "pound", "oz"}
MetricVolumeUnits == {"ml", "liter"}

\* C23: every pair of distinct volume units, every pair of distinct weight
\* units, and ml with liter, convert: none yields the not-convertible
\* sentinel.
C23_TwoHopResolves ==
    (/\ conv.outcome # "none"
     /\ FromNorm # ToNorm
     /\ \/ {FromNorm, ToNorm} \subseteq VolumeUnits
        \/ {FromNorm, ToNorm} \subseteq WeightUnits
        \/ {FromNorm, ToNorm} \subseteq MetricVolumeUnits)
       => conv.result # Null /\ conv.outcome = "ok"

\* C24: a WantListItem's isPurchased never goes back to false, marking a
\* purchased item again changes nothing, a WantListItem is archived only by
\* the purchase transfer and only when purchased, and an archived StockItem
\* or WantListItem stays archived.
C24_LifecycleMonotone ==
    [][/\ Len(want') >= Len(want)
       /\ Len(stock') >= Len(stock)
       /\ \A i \in 1..Len(want) :
             /\ want[i].isPurchased => want'[i].isPurchased
             /\ want[i].archived => want'[i].archived
             /\ (~want[i].archived /\ want'[i].archived)
                   => last'.call.tool = "addPurchasedItemsToPantry" /\ want[i].isPurchased
       /\ \A i \in 1..Len(stock) : stock[i].archived => stock'[i].archived
       /\ (/\ last'.call.tool = "markItemAsPurchased"
           /\ last'.outcome = "ok"
           /\ want[last'.call.itemId].isPurchased) => want' = want]_vars

\* C24 witness: the entry for Kale, unpurchased when the server started, has
\* been marked purchased and then archived by the transfer.
C24_Witness ==
    /\ Len(want) >= 2
    /\ want[2].name = "Kale"
    /\ want[2].isPurchased
    /\ want[2].archived
    /\ last.call.tool = "addPurchasedItemsToPantry"
    /\ last.outcome = "ok"

\* C25: with addToShoppingList false, updatePantryAfterCooking (both paths),
\* updatePantryWithUsedItems and removeExpiredItems leave the WantListItems
\* as they were.
C25_FlagOffAddsNothing ==
    [][(/\ last'.call.tool \in {"updatePantryAfterCooking", "updatePantryWithUsedItems",
                                "removeExpiredItems"}
        /\ ~last'.call.add) => want' = want]_vars

\* C26: the report of a successful reconciliation is faithful to the store:
\* the returned addedToShoppingList names the WantListItems created by the
\* invocation, one for one, and every returned before/after pair holds the
\* item's stored quantity before and after the invocation.
C26_ReportFaithful ==
    [][(IsCooking(last'.call) /\ last'.outcome = "ok") =>
          /\ Len(last'.added) = Len(want') - Len(want)
          /\ \A k \in 1..Len(last'.added) :
                Len(want) + k <= Len(want')
                   => Lower(last'.added[k]) = Lower(want'[Len(want) + k].name)
          /\ \A k \in 1..Len(last'.changes) :
                \A id \in {FindByName(stock, last'.changes[k].name)} :
                   /\ id # 0
                   /\ last'.changes[k].before = stock[id].quantity
                   /\ last'.changes[k].after = stock'[id].quantity]_vars

\* The active unpurchased WantListItems whose name equals name ignoring case.
OpenEntries(items, name) ==
    {i \in 1..Len(items) : /\ ~items[i].archived
                           /\ ~items[i].isPurchased
                           /\ Lower(items[i].name) = Lower(name)}

\* C27: the addToShoppingList tool adds the quantity to an active unpurchased
\* entry of the same name (ignoring case) and creates nothing, or else
\* creates exactly one entry that is neither purchased nor auto-added; every
\* other entry, purchased ones of the same name included, is left as it was.
C27_DuplicateHandling ==
    [][(last'.call.tool = "addToShoppingList" /\ last'.outcome = "ok") =>
          \A open \in {OpenEntries(want, last'.call.name)} :
             IF open # {}
             THEN /\ Len(want') = Len(want)
                  /\ \E i \in open :
                        /\ want'[i].quantity = want[i].quantity + last'.call.quantity
                        /\ want'[i].name = want[i].name
                        /\ want'[i].isPurchased = want[i].isPurchased
                        /\ want'[i].archived = want[i].archived
                        /\ \A j \in 1..Len(want) : j # i => want'[j] = want[j]
             ELSE /\ Len(want') = Len(want) + 1
                  /\ want'[Len(want')].name = last'.call.name
                  /\ want'[Len(want')].quantity = last'.call.quantity
                  /\ ~want'[Len(want')].isPurchased
                  /\ ~want'[Len(want')].isAutoAdded
                  /\ ~want'[Len(want')].archived
                  /\ \A j \in 1..Len(want) : want'[j] = want[j]]_vars

\* C27 witness: "kale" was added once to a list whose only entry of that
\* name is purchased, which made a second entry, and added again, which
\* went into that second entry.
C27_Witness ==
    /\ last.call.tool = "addToShoppingList"
    /\ last.call.name = "kale"
    /\ last.outcome = "ok"
    /\ Len(want) = 2
    /\ want[1].name = "kale" /\ want[1].isPurchased /\ want[1].quantity = 1
    /\ want[2].name = "kale" /\ ~want[2].isPurchased /\ want[2].quantity = 2
    /\ Len(last.log) = 1
    /\ last.log[1].op = "updateShoppingListItem"

\* The quantity of the active StockItem of a name, 0 when there is none.
StockQty(items, name) ==
    IF FindByName(items, name) = 0 THEN 0 ELSE items[FindByName(items, name)].quantity

\* C28: over transfers that may abort and be retried, every purchased
\* quantity reaches the stock exactly once: for each name, the stock
\* quantity plus the quantities still waiting in active purchased
\* WantListItems is the same after every transfer invocation as before it,
\* so an entry is archived only with its merge and a merged entry is not
\* left to be merged again.
C28_MergedExactlyOnce ==
    [][IsTransfer(last') =>
          \A j \in 1..Len(want) :
             StockQty(stock', want[j].name) + SumPurchased(want', want[j].name, 1)
                = StockQty(stock, want[j].name) + SumPurchased(want, want[j].name, 1)]_vars

\* C29: updatePantryAfterCooking reports triedStatusUpdated = true only when
\* the recipe's tried flag went from false to true in the store during the
\* invocation.
C29_TriedReportedIffWritten ==
    [][(IsRecipeCall(last'.call) /\ last'.outcome = "ok" /\ last'.triedStatusUpdated)
          => /\ ~tried[last'.call.recipeId]
             /\ tried'[last'.call.recipeId]]_vars

\* C30: when the addToShoppingList tool merges into an existing unpurchased
\* WantListItem and the caller gave no priority, the item keeps its
\* priority.
C30_PriorityPreserved ==
    [][(/\ last'.call.tool = "addToShoppingList"
        /\ last'.outcome = "ok"
        /\ last'.call.priority = ""
        /\ OpenEntries(want, last'.call.name) # {})
          => \A j \in 1..Len(want) : want'[j].priority = want[j].priority]_vars
====
